---- MODULE Spec2Model ----
(***************************************************************************)
(* A model of the cellular-automata subnet: the integrity envelope codec   *)
(* (automata/protocol.py), the rule engines (automata/utils/rulesets.py,   *)
(* cell_automata/protocol.py, cell_automata/utils/ca_rules.py) and the     *)
(* requester/executor round (automata/validator/forward.py,                *)
(* neurons/validator.py, neurons/miner.py).                                *)
(***************************************************************************)
EXTENDS Integers, Sequences, FiniteSets, TLC

VARIABLES
    \* ---- codec scenario (automata/protocol.py, tests/test_serialization.py)
    initial_state,      \* the grid handed to the encoder
    steps,              \* the steps argument of serialize_parameters
    rule_func,          \* the rule_func argument
    neighborhood_func,  \* the neighborhood_func argument
    wire,               \* the tuple an encoder returned, <<>> before encoding
    wireKind,           \* "none", "parameters" or "automaton"
    tampered,           \* a byte of the payload block was changed after encoding
    decoded,            \* outcome of the last decode call
    \* ---- one rule application (rule engines)
    n,                  \* the neighbourhood window handed to the rule
    c,                  \* the centre-cell state handed to the rule
    t,                  \* the timestep handed to the rule
    ruleOut,            \* which rule ran and the Python value it returned
    \* ---- one requester with its executors (validator/forward.py, miner.py)
    vpc,                \* where the requester's forward() stands
    roundNo,            \* number of forward() calls started
    sample_size_cfg,    \* self.config.neuron.sample_size
    params,             \* (steps, rule_instance) of get_random_params
    miner_uids,         \* the uids query_automata_miners sampled
    request,            \* the synapse handed to dendrite.query, None before
    inflight,           \* per queried uid: "pending" or the response
    responses,          \* what query_automata_miners returned
    consumed,           \* positions of responses a scoring function was handed
    scoreLog,           \* the update_scores calls of this round
    saves,              \* number of save_state calls of this round
    returned,           \* what forward() returned: "none", "None", "responses"
    \* ---- one request at the executor (neurons/miner.py)
    sent,               \* what the requester encoded in the request
    msynapse,           \* the synapse miner.forward receives
    mresult,            \* outcome of miner.forward
    \* ---- one evolution (miner.evolve_automata, Simulate, Simulate1D)
    ca,                 \* the array handed over as initial state
    timesteps,          \* the steps / timesteps argument
    neighbourhood_arg,  \* the neighbourhood string handed over
    cellArg,            \* what the engine passes to a rule as c
    evolved             \* outcome of the run

codecVars == <<initial_state, steps, rule_func, neighborhood_func,
               wire, wireKind, tampered, decoded>>

ruleVars == <<n, c, t, ruleOut>>

sessionVars == <<vpc, roundNo, sample_size_cfg, params, miner_uids, request,
                 inflight, responses, consumed, scoreLog, saves, returned>>

minerVars == <<sent, msynapse, mresult>>

evolveVars == <<ca, timesteps, neighbourhood_arg, cellArg, evolved>>

vars == <<codecVars, ruleVars, sessionVars, minerVars, evolveVars>>

\* what the actions of one scenario leave alone
otherThanCodec == <<ruleVars, sessionVars, minerVars, evolveVars>>
otherThanRules == <<codecVars, sessionVars, minerVars, evolveVars>>
otherThanSession == <<codecVars, ruleVars, minerVars, evolveVars>>
otherThanMiner == <<codecVars, ruleVars, sessionVars, evolveVars>>
otherThanEvolve == <<codecVars, ruleVars, sessionVars, minerVars>>

(***************************************************************************)
(* Bounds of the model.                                                    *)
(***************************************************************************)
MaxCells == 2       \* a grid has at most this many cells
MaxSteps == 2       \* steps is drawn from 1..MaxSteps
MaxByte  == 2       \* a tampered byte is drawn from 0..MaxByte
MaxMiners == 2      \* number of axons in the metagraph
MaxRounds == 2      \* forward() is called at most this many times
MaxTimesteps == 3   \* an evolution is asked for 1..MaxTimesteps steps

(***************************************************************************)
(* Python values.                                                          *)
(***************************************************************************)
\* Optional[x]: None is the empty sequence, a value is a one-element sequence.
None == <<>>
Some(x) == <<x>>

\* A tuple and a list hold the same items; json turns the first into the second.
PyTuple(items) == [py |-> "tuple", items |-> items]
PyList(items) == [py |-> "list", items |-> items]

RECURSIVE Product(_)
Product(s) == IF s = <<>> THEN 1 ELSE Head(s) * Product(Tail(s))

RECURSIVE Flatten(_)
Flatten(ss) == IF ss = <<>> THEN <<>> ELSE Head(ss) \o Flatten(Tail(ss))

(***************************************************************************)
(* numpy arrays: a dtype, a shape and a contiguous little-endian buffer.   *)
(***************************************************************************)
\* The element types of the repository: uint8 (tests/test_serialization.py)
\* and int64 (np.random.randint in Validator.get_random_params).
DTypeNames == {"uint8", "int64"}

\* np.dtype(name).itemsize
Itemsize(name) == IF name = "uint8" THEN 1 ELSE 8

\* one element as itemsize little-endian bytes
RECURSIVE ToLittleEndian(_, _)
ToLittleEndian(v, width) ==
    IF width = 0 THEN <<>>
    ELSE <<v % 256>> \o ToLittleEndian(v \div 256, width - 1)

\* np.array(cells, dtype).reshape(shape)
NdArray(dtype, shape, cells) ==
    [dtype  |-> dtype,
     shape  |-> PyTuple(shape),
     buffer |-> Flatten([i \in 1..Len(cells) |->
                            ToLittleEndian(cells[i], Itemsize(dtype))])]

\* ndarray.tobytes(): a copy of the buffer in C order
tobytes(a) == a.buffer

\* shapes of one or two dimensions, a dimension of size 0 included
Shapes ==
    {s \in UNION {[1..k -> 0..MaxCells] : k \in 1..2} : Product(s) <= MaxCells}

Grids ==
    UNION {{NdArray(d, s, cs) : d \in DTypeNames, cs \in [1..Product(s) -> 0..1]}
           : s \in Shapes}

(***************************************************************************)
(* bytes objects.  A payload block is a raw buffer; a metadata block is    *)
(* the UTF-8 text json.dumps wrote for a dict.                             *)
(***************************************************************************)
NoDoc == [none |-> TRUE]
RawBytes(bs) == [kind |-> "raw", bytes |-> bs, doc |-> NoDoc]
JsonText(doc) == [kind |-> "json", bytes |-> <<>>, doc |-> doc]

\* json.dumps(metadata).encode("utf-8"): a tuple is written as a JSON array,
\* ints and strings are written as themselves.
json_dumps(d) ==
    JsonText([k \in DOMAIN d |->
                IF k = "shape" THEN PyList(d[k].items) ELSE d[k]])

\* json.loads(b.decode("utf-8")).  A grid buffer over cell values 0..MaxByte
\* holds control characters only, which is no JSON document: JSONDecodeError.
json_loads(b) ==
    IF b.kind = "json" THEN [err |-> "none", doc |-> b.doc]
    ELSE [err |-> "JSONDecodeError", doc |-> NoDoc]

\* dict.get(key, default)
DictGet(d, k, default) == IF k \in DOMAIN d THEN d[k] ELSE default

\* dict.get(key): the value, or None when the key is absent
DictGetOptional(d, k) == IF k \in DOMAIN d THEN Some(d[k]) ELSE None

\* hashlib.sha256(b).hexdigest(), as the symbolic digest of b: two digests
\* are equal exactly when the hashed bytes are (SHA-256 taken collision-free).
sha256_hexdigest(b) == [alg |-> "sha256", of |-> b]

\* the "" default of metadata.get("hash", "")
EmptyString == [alg |-> "", of |-> RawBytes(<<>>)]

(***************************************************************************)
(* Outcomes of a call: a returned value or a raised exception.             *)
(***************************************************************************)
NoGrid == [dtype |-> "", shape |-> PyTuple(<<>>), buffer |-> <<>>]

Raised(exc, call) ==
    [status |-> exc, call |-> call, grid |-> NoGrid,
     steps |-> None, rule_func |-> None, neighborhood_func |-> None]

Returned(call, grid, st, rf, nf) ==
    [status |-> "ok", call |-> call, grid |-> grid,
     steps |-> st, rule_func |-> rf, neighborhood_func |-> nf]

NotCalled == Raised("none", "none")

(***************************************************************************)
(* CAsynapse.serialize_parameters                                          *)
(***************************************************************************)
\* ret is the returned tuple (metadata_bytes, array_bytes); err the exception.
serialize_parameters(state, st, rf, nf) ==
    IF ~(st \in Int /\ st > 0) THEN [err |-> "ValueError", ret |-> <<>>]
    ELSE IF rf = "" THEN [err |-> "ValueError", ret |-> <<>>]
    ELSE IF nf = "" THEN [err |-> "ValueError", ret |-> <<>>]
    ELSE
        LET array_bytes == RawBytes(tobytes(state))
            array_hash  == sha256_hexdigest(array_bytes)
            metadata    == [dtype |-> state.dtype,
                            shape |-> state.shape,
                            hash  |-> array_hash,
                            steps |-> st,
                            rule_func |-> rf,
                            neighborhood_func |-> nf]
        IN  [err |-> "none", ret |-> <<json_dumps(metadata), array_bytes>>]

(***************************************************************************)
(* CAsynapse.serialize_automaton                                           *)
(***************************************************************************)
\* Returns the tuple (automaton_bytes, automaton_metadata_bytes).
serialize_automaton(automaton) ==
    LET automaton_bytes    == RawBytes(tobytes(automaton))
        automaton_hash     == sha256_hexdigest(automaton_bytes)
        automaton_metadata == [dtype |-> automaton.dtype,
                               shape |-> automaton.shape,
                               hash  |-> automaton_hash]
    IN  <<automaton_bytes, json_dumps(automaton_metadata)>>

(***************************************************************************)
(* np.frombuffer(...).reshape(...)                                         *)
(***************************************************************************)
\* the shape a.reshape(shape) gives an array of count elements: one
\* dimension may be -1 and is then inferred from the others; <<>> when the
\* shape does not hold count elements ("cannot reshape array ...")
ReshapedShape(count, shape) ==
    LET unknown == {i \in 1..Len(shape) : shape[i] = -1}
        known == Product([i \in 1..Len(shape) |->
                            IF shape[i] = -1 THEN 1 ELSE shape[i]])
    IN  IF \E i \in 1..Len(shape) : shape[i] < -1 THEN None
        ELSE IF Cardinality(unknown) > 1 THEN None
        ELSE IF unknown = {}
             THEN IF known = count THEN Some(shape) ELSE None
        ELSE IF known = 0 \/ count % known # 0 THEN None
        ELSE Some([i \in 1..Len(shape) |->
                     IF shape[i] = -1 THEN count \div known ELSE shape[i]])

\* np.frombuffer(b, dtype=np.dtype(name)).reshape(shape); "ValueError" when
\* the buffer is no whole number of elements or the shape does not hold them.
frombuffer_reshape(b, name, shape) ==
    IF name \notin DTypeNames THEN [err |-> "TypeError", grid |-> NoGrid]
    ELSE IF Len(b.bytes) % Itemsize(name) # 0
         THEN [err |-> "ValueError", grid |-> NoGrid]
    ELSE LET reshaped == ReshapedShape(Len(b.bytes) \div Itemsize(name),
                                       shape.items)
         IN  IF reshaped = None THEN [err |-> "ValueError", grid |-> NoGrid]
             ELSE [err |-> "none",
                   grid |-> [dtype |-> name, shape |-> PyTuple(reshaped[1]),
                             buffer |-> b.bytes]]

(***************************************************************************)
(* Calling a function of a class.                                          *)
(***************************************************************************)
\* the CAsynapse instance a method is looked up on
SelfObj == [kind |-> "synapse", bytes |-> <<>>, doc |-> NoDoc]

\* Python binds the positional arguments of a call to the nparams parameters
\* of the def; looked up on an instance, the instance is prepended.  Too many
\* or too few arguments raise TypeError before the body runs.
BindArgs(nparams, receiver, args) ==
    LET all == receiver \o args
    IN  IF Len(all) # nparams THEN [err |-> "TypeError", args |-> <<>>]
        ELSE [err |-> "none", args |-> all]

\* def deserialize_parameters(metadata_bytes, array_bytes): two parameters,
\* no self
deserialize_parameters_nparams == 2
\* def deserialize_automaton(self, automaton_metadata_bytes, automaton_bytes)
deserialize_automaton_nparams == 3

IntegrityError == "ValueError: Data integrity check failed!"

(***************************************************************************)
(* CAsynapse.deserialize_parameters (the body)                             *)
(***************************************************************************)
deserialize_parameters(metadata_bytes, array_bytes, call) ==
    LET loaded == json_loads(metadata_bytes)
        metadata == loaded.doc
        array_hash == sha256_hexdigest(array_bytes)
    IN  IF loaded.err # "none" THEN Raised(loaded.err, call)
        ELSE IF array_hash # DictGet(metadata, "hash", EmptyString)
             THEN Raised(IntegrityError, call)
        ELSE IF "dtype" \notin DOMAIN metadata \/ "shape" \notin DOMAIN metadata
             THEN Raised("KeyError", call)
        ELSE LET a == frombuffer_reshape(array_bytes, metadata["dtype"],
                                         metadata["shape"])
             IN  IF a.err # "none" THEN Raised(a.err, call)
                 ELSE Returned(call, a.grid,
                               DictGetOptional(metadata, "steps"),
                               DictGetOptional(metadata, "rule_func"),
                               DictGetOptional(metadata, "neighborhood_func"))

(***************************************************************************)
(* CAsynapse.deserialize_automaton (the body)                              *)
(***************************************************************************)
\* the same body with the digest comparison left out
deserialize_automaton_unverified(self, automaton_metadata_bytes, automaton_bytes, call) ==
    LET loaded == json_loads(automaton_metadata_bytes)
        a == frombuffer_reshape(automaton_bytes, loaded.doc["dtype"],
                                loaded.doc["shape"])
    IN  IF loaded.err # "none" THEN Raised(loaded.err, call)
        ELSE IF a.err # "none" THEN Raised(a.err, call)
        ELSE Returned(call, a.grid, None, None, None)

deserialize_automaton(self, automaton_metadata_bytes, automaton_bytes, call) ==
    LET loaded == json_loads(automaton_metadata_bytes)
        automaton_metadata == loaded.doc
        automaton_hash == sha256_hexdigest(automaton_bytes)
    IN  IF loaded.err # "none" THEN Raised(loaded.err, call)
        ELSE IF automaton_hash # DictGet(automaton_metadata, "hash", EmptyString)
             THEN Raised(IntegrityError, call)
        ELSE IF "dtype" \notin DOMAIN automaton_metadata
                \/ "shape" \notin DOMAIN automaton_metadata
             THEN Raised("KeyError", call)
        ELSE LET a == frombuffer_reshape(automaton_bytes,
                                         automaton_metadata["dtype"],
                                         automaton_metadata["shape"])
             IN  IF a.err # "none" THEN Raised(a.err, call)
                 ELSE Returned(call, a.grid, None, None, None)

(***************************************************************************)
(* Python and numpy values a rule computes with and returns.               *)
(***************************************************************************)
IntV(x) == [kind |-> "int", v |-> <<x>>]
BoolV(b) == [kind |-> "bool", v |-> <<IF b THEN 1 ELSE 0>>]
ArrV(xs) == [kind |-> "array", v |-> xs]
NoneV == [kind |-> "None", v |-> <<>>]
RaiseV(exc) == [kind |-> exc, v |-> <<>>]

IsScalar(x) == x.kind \in {"int", "bool"}
IsRaise(x) == x.kind \notin {"int", "bool", "array", "None"}

\* bool(x) of an array with more than one element raises ValueError
TruthRaises(x) == x.kind = "array" /\ Len(x.v) > 1
Truth(x) ==
    IF x.kind = "None" THEN FALSE
    ELSE IF x.kind = "array" THEN Len(x.v) = 1 /\ x.v[1] # 0
    ELSE x.v[1] # 0

\* a and b; a or b: the operand that decides is the value
PyAnd(a, b) ==
    IF IsRaise(a) THEN a
    ELSE IF TruthRaises(a) THEN RaiseV("ValueError")
    ELSE IF Truth(a) THEN b ELSE a

PyOr(a, b) ==
    IF IsRaise(a) THEN a
    ELSE IF TruthRaises(a) THEN RaiseV("ValueError")
    ELSE IF Truth(a) THEN a ELSE b

\* x == k and lo <= x, x <= hi against an int: elementwise on an array
PyEq(x, k) ==
    IF IsScalar(x) THEN BoolV(x.v[1] = k)
    ELSE ArrV([i \in 1..Len(x.v) |-> IF x.v[i] = k THEN 1 ELSE 0])

PyGe(x, k) ==
    IF IsScalar(x) THEN BoolV(x.v[1] >= k)
    ELSE ArrV([i \in 1..Len(x.v) |-> IF x.v[i] >= k THEN 1 ELSE 0])

PyLe(x, k) ==
    IF IsScalar(x) THEN BoolV(x.v[1] <= k)
    ELSE ArrV([i \in 1..Len(x.v) |-> IF x.v[i] <= k THEN 1 ELSE 0])

\* lo <= x <= hi is (lo <= x) and (x <= hi)
PyBetween(lo, x, hi) == PyAnd(PyGe(x, lo), PyLe(x, hi))

\* x in (k1, k2, ...): any(x == k) with each comparison taken as a bool
PyIn(x, ks) ==
    IF IsScalar(x) THEN BoolV(x.v[1] \in ks)
    ELSE IF Len(x.v) > 1 THEN RaiseV("ValueError")
    ELSE BoolV(x.v[1] \in ks)

\* int(x): only a scalar or a one-element array converts
PyInt(x) ==
    IF IsRaise(x) THEN x
    ELSE IF x.kind = "None" THEN RaiseV("TypeError")
    ELSE IF x.kind = "array" /\ Len(x.v) # 1 THEN RaiseV("TypeError")
    ELSE IntV(x.v[1])

(***************************************************************************)
(* Neighbourhood windows of radius r.                                      *)
(***************************************************************************)
r == 1
Width == 2 * r + 1

\* the cell states: 0 dead, 1 live (firing), 2 dying (Brian's Brain)
CellStates == {0, 1, 2}
BinaryStates == {0, 1}

\* a 1-D window is one row of Width cells, a 2-D window Width rows
Window1D(row) == [ndim |-> 1, rows |-> <<row>>]
Window2D(rows) == [ndim |-> 2, rows |-> rows]

Windows ==
    {Window1D(row) : row \in [1..Width -> CellStates]}
    \cup {Window2D(rows) : rows \in [1..Width -> [1..Width -> CellStates]]}

RECURSIVE SumSeq(_)
SumSeq(xs) == IF xs = <<>> THEN 0 ELSE Head(xs) + SumSeq(Tail(xs))

\* the cell the window is centred on
Centre(w) == IF w.ndim = 1 THEN w.rows[1][r + 1] ELSE w.rows[r + 1][r + 1]

IsBinary(w) == \A i \in 1..Len(w.rows) : \A j \in 1..Width : w.rows[i][j] \in BinaryStates

\* the number of cells of the window other than the centre in state s
NeighboursIn(w, s) ==
    Cardinality({ij \in (1..Len(w.rows)) \X (1..Width) : w.rows[ij[1]][ij[2]] = s})
    - (IF Centre(w) = s THEN 1 ELSE 0)

\* np.sum(n): the sum of all cells of the window, the centre included
np_sum(w) == IntV(SumSeq(Flatten(w.rows)))

\* the builtin sum(n): adds the items of n; the items of a 2-D array are its
\* rows, so the result is the array of column sums
builtin_sum(w) ==
    IF w.ndim = 1 THEN IntV(SumSeq(w.rows[1]))
    ELSE ArrV([j \in 1..Width |-> SumSeq([i \in 1..Width |-> w.rows[i][j]])])

(***************************************************************************)
(* automata/utils/rulesets.py                                              *)
(***************************************************************************)
\* center_cell = neighbourhood[1][1]; indexing a scalar raises IndexError
rulesets_live_rule(neighbourhood, births) ==
    IF neighbourhood.ndim = 1 THEN RaiseV("IndexError")
    ELSE
        LET center_cell == neighbourhood.rows[2][2]
            total == np_sum(neighbourhood).v[1]
        IN  IF center_cell = 1
            THEN IF total - 1 < 2 THEN IntV(0)
                 ELSE IF total - 1 = 2 \/ total - 1 = 3 THEN IntV(1)
                 ELSE IF total - 1 > 3 THEN IntV(0)
                 ELSE NoneV
            ELSE IF total \in births THEN IntV(1) ELSE IntV(0)

rulesets_ConwayRule(neighbourhood, cc, tt) ==
    rulesets_live_rule(neighbourhood, {3})

rulesets_HighLifeRule(neighbourhood, cc, tt) ==
    rulesets_live_rule(neighbourhood, {3, 6})

rulesets_DayAndNightRule(neighbourhood, cc, tt) ==
    rulesets_live_rule(neighbourhood, {3, 6, 7, 8})

(***************************************************************************)
(* cell_automata/protocol.py                                               *)
(***************************************************************************)
\* int(c and 2 <= sum_n <= 3 or sum_n == 3)
protocol_ConwayRule(nn, cc, tt) ==
    LET sum_n == np_sum(nn)
    IN  PyInt(PyOr(PyAnd(IntV(cc), PyBetween(2, sum_n, 3)), PyEq(sum_n, 3)))

\* int(c and 2 <= sum_n <= 3 or sum_n == 6)
protocol_HighLifeRule(nn, cc, tt) ==
    LET sum_n == np_sum(nn)
    IN  PyInt(PyOr(PyAnd(IntV(cc), PyBetween(2, sum_n, 3)), PyEq(sum_n, 6)))

\* sum_n in (3, 6, 7, 8) or c and sum_n in (4, 6, 7, 8)
protocol_DayAndNightRule(nn, cc, tt) ==
    LET sum_n == np_sum(nn)
    IN  PyOr(PyIn(sum_n, {3, 6, 7, 8}),
             PyAnd(IntV(cc), PyIn(sum_n, {4, 6, 7, 8})))

\* if c == 0 and sum_n == 2: 1; elif c == 1: 2; elif c == 2: 0; else: None
protocol_BriansBrainRule(nn, cc, tt) ==
    LET sum_n == builtin_sum(nn)
        cond == PyAnd(BoolV(cc = 0), PyEq(sum_n, 2))
    IN  IF IsRaise(cond) THEN cond
        ELSE IF TruthRaises(cond) THEN RaiseV("ValueError")
        ELSE IF Truth(cond) THEN IntV(1)
        ELSE IF cc = 1 THEN IntV(2)
        ELSE IF cc = 2 THEN IntV(0)
        ELSE NoneV

\* int(sum_n == 2)
protocol_SeedsRule(nn, cc, tt) ==
    LET sum_n == builtin_sum(nn)
    IN  PyInt(PyEq(sum_n, 2))

(***************************************************************************)
(* cell_automata/utils/ca_rules.py                                         *)
(***************************************************************************)
\* c and 2 <= sum_n <= 3 or sum_n == 3
ca_rules_ConwayRule(nn, cc, tt) ==
    LET sum_n == builtin_sum(nn)
    IN  PyOr(PyAnd(IntV(cc), PyBetween(2, sum_n, 3)), PyEq(sum_n, 3))

\* c and 2 <= sum_n <= 3 or sum_n == 6
ca_rules_HighLifeRule(nn, cc, tt) ==
    LET sum_n == builtin_sum(nn)
    IN  PyOr(PyAnd(IntV(cc), PyBetween(2, sum_n, 3)), PyEq(sum_n, 6))

\* sum_n in (3, 6, 7, 8) or c and sum_n in (4, 6, 7, 8)
ca_rules_DayAndNightRule(nn, cc, tt) ==
    LET sum_n == builtin_sum(nn)
    IN  PyOr(PyIn(sum_n, {3, 6, 7, 8}),
             PyAnd(IntV(cc), PyIn(sum_n, {4, 6, 7, 8})))

\* the same body as in cell_automata/protocol.py
ca_rules_BriansBrainRule(nn, cc, tt) ==
    LET sum_n == builtin_sum(nn)
        cond == PyAnd(BoolV(cc = 0), PyEq(sum_n, 2))
    IN  IF IsRaise(cond) THEN cond
        ELSE IF TruthRaises(cond) THEN RaiseV("ValueError")
        ELSE IF Truth(cond) THEN IntV(1)
        ELSE IF cc = 1 THEN IntV(2)
        ELSE IF cc = 2 THEN IntV(0)
        ELSE NoneV

\* sum_n == 2
ca_rules_SeedsRule(nn, cc, tt) ==
    LET sum_n == builtin_sum(nn)
    IN  PyEq(sum_n, 2)

(***************************************************************************)
(* The synapse and the collaborators of a round.                           *)
(***************************************************************************)
\* the fields CAsynapse declares
SynapseFields ==
    {"array_bytes", "metadata_bytes", "automaton_bytes",
     "automaton_metadata_bytes"}

\* CAsynapse(**kwargs): a declared field takes its keyword, any other field
\* is None; pydantic drops keywords that name no field
CAsynapse(kwargs) ==
    [f \in SynapseFields |-> IF f \in DOMAIN kwargs THEN Some(kwargs[f]) ELSE None]

\* bounds of random.randint(10, 20)
StepsLow == 10
StepsHigh == 20

\* get_random_params() of validator/forward.py
get_random_params ==
    {[steps |-> st, rule_instance |-> ri] :
        st \in StepsLow..StepsHigh, ri \in {"Rule30", "Rule110"}}

NoParams == [steps |-> 0, rule_instance |-> ""]

\* the executor's registry
rule_class_mapping ==
    [Conway |-> "rulesets.ConwayRule",
     HighLife |-> "rulesets.HighLifeRule",
     DayAndNight |-> "rulesets.DayAndNightRule"]

\* calling a def with keyword arguments: a keyword that names no parameter,
\* or a parameter left without argument, raises TypeError
BindKeywords(parameters, keywords) ==
    IF keywords \subseteq parameters /\ parameters \subseteq keywords
    THEN [err |-> "none"] ELSE [err |-> "TypeError"]

\* def evolve_automata(self, initial_state, steps, rule_instance, r,
\*                     neighbourhood_func, memoize), self being bound
evolve_automata_parameters ==
    {"initial_state", "steps", "rule_instance", "r", "neighbourhood_func",
     "memoize"}

\* the keywords of the call in miner.forward
evolve_automata_keywords ==
    {"initial_state", "timesteps", "rule_instance", "r", "neighbourhood_type",
     "memoize"}

(***************************************************************************)
(* miner.forward                                                           *)
(***************************************************************************)
\* a local of forward that the call never came to assign
NotReached == [reached |-> FALSE, value |-> None]
Reached(value) == [reached |-> TRUE, value |-> value]

\* lines 94-130, the tuple deserialize_parameters returned being unpacked as
\* (initial_state, steps, neighbourhood_func, rule_func).  rule_class_name is
\* the key of the registry lookup, engine the arguments of evolve_automata.
\* The call of line 111 names keywords evolve_automata does not have, so
\* lines 119-130 never run.
forward_after_decode(got, synapse) ==
    LET initial_state_ == got.grid
        steps_ == got.steps
        neighbourhood_func == got.rule_func
        rule_func_ == got.neighborhood_func
        rule_class_name == rule_func_
        call == BindKeywords(evolve_automata_parameters,
                             evolve_automata_keywords)
    IN  IF rule_class_name = None
           \/ rule_class_name[1] \notin DOMAIN rule_class_mapping
        THEN [exc |-> "ValueError", at |-> 107, synapse |-> synapse,
              rule_class_name |-> Reached(rule_class_name),
              engine |-> NotReached]
        ELSE [exc |-> call.err, at |-> 111, synapse |-> synapse,
              rule_class_name |-> Reached(rule_class_name),
              engine |-> IF call.err # "none" THEN NotReached
                         ELSE Reached([initial_state |-> initial_state_,
                                       steps |-> steps_,
                                       neighbourhood_func |-> neighbourhood_func])]

\* exc is the exception leaving forward (then the synapse goes back as it
\* came), at the source line that raised it.
miner_forward(synapse) ==
    LET bound == BindArgs(deserialize_parameters_nparams, <<SelfObj>>, <<>>)
    IN  IF bound.err # "none"
        THEN [exc |-> bound.err, at |-> 92, synapse |-> synapse,
              rule_class_name |-> NotReached, engine |-> NotReached]
        ELSE
        LET got == deserialize_parameters(bound.args[1], bound.args[2], "miner")
        IN  IF got.status # "ok"
            THEN [exc |-> got.status, at |-> 92, synapse |-> synapse,
                  rule_class_name |-> NotReached, engine |-> NotReached]
            ELSE forward_after_decode(got, synapse)

(***************************************************************************)
(* Scoring                                                                 *)
(***************************************************************************)
\* get_rewards(self, query, responses): one opaque reward per response
get_rewards(query, resps) == [i \in 1..Len(resps) |-> "reward"]

\* compute_scores with the read of response.payload left out: every response
\* is given the score 1, divided by the total
compute_scores_without_payload(resps) ==
    IF Len(resps) = 0
    THEN [exc |-> "ValueError", scores |-> <<>>]
    ELSE [exc |-> "none", scores |-> [i \in 1..Len(resps) |-> <<1, Len(resps)>>]]

\* compute_scores(self, responses): response.payload is read of every
\* response; CAsynapse has no such attribute
compute_scores(resps) ==
    IF Len(resps) > 0 /\ "payload" \notin SynapseFields
    THEN [exc |-> "AttributeError", scores |-> <<>>]
    ELSE IF Len(resps) = 0
    THEN [exc |-> "ValueError", scores |-> <<>>]
    ELSE [exc |-> "none", scores |-> [i \in 1..Len(resps) |-> <<1, Len(resps)>>]]

\* the response carries a payload block and a metadata block and the codec
\* decodes them: the digest matches and the grid is rebuilt
Verifies(resp) ==
    /\ resp.automaton_bytes # None
    /\ resp.automaton_metadata_bytes # None
    /\ deserialize_automaton(SelfObj, resp.automaton_metadata_bytes[1],
                             resp.automaton_bytes[1], "requester").status = "ok"

\* a request envelope: both blocks, the metadata's hash the payload's digest
IsRequestEnvelope(syn) ==
    /\ syn.array_bytes # None
    /\ syn.metadata_bytes # None
    /\ json_loads(syn.metadata_bytes[1]).err = "none"
    /\ DictGet(json_loads(syn.metadata_bytes[1]).doc, "hash", EmptyString)
          = sha256_hexdigest(syn.array_bytes[1])

\* a response envelope, likewise
IsResponseEnvelope(syn) ==
    /\ syn.automaton_bytes # None
    /\ syn.automaton_metadata_bytes # None
    /\ json_loads(syn.automaton_metadata_bytes[1]).err = "none"
    /\ DictGet(json_loads(syn.automaton_metadata_bytes[1]).doc, "hash",
               EmptyString) = sha256_hexdigest(syn.automaton_bytes[1])

(***************************************************************************)
(* Executors outside the repository answer with any two blocks.            *)
(***************************************************************************)
ReplyGrids == {NdArray("uint8", <<1>>, <<v>>) : v \in BinaryStates}

\* (payload block, metadata block): the metadata of the payload, or of
\* another grid
ForeignReplies ==
    {<<serialize_automaton(g)[1], serialize_automaton(h)[2]>> :
        g \in ReplyGrids, h \in ReplyGrids}

(***************************************************************************)
(* The codec scenario: encode a grid, possibly change one payload byte,    *)
(* decode.                                                                 *)
(***************************************************************************)
RuleNames == {"Conway", "Rule30"}
NeighborhoodNames == {"Moore", "Von Neumann"}

\* position of the payload block and of the metadata block in the tuple the
\* encoder returned
PayloadAt == IF wireKind = "parameters" THEN 2 ELSE 1
MetadataAt == IF wireKind = "parameters" THEN 1 ELSE 2

\* no rule was applied
NoRule == [rule |-> "none", value |-> NoneV]

\* the parts of the state a scenario does not use
CodecUnused ==
    /\ initial_state = NoGrid
    /\ steps = 0
    /\ rule_func = ""
    /\ neighborhood_func = ""
    /\ wire = <<>>
    /\ wireKind = "none"
    /\ tampered = FALSE
    /\ decoded = NotCalled

RulesUnused ==
    /\ n = Window1D([i \in 1..Width |-> 0])
    /\ c = 0
    /\ t = 0
    /\ ruleOut = NoRule

\* the requester's round is not started
SessionUnused ==
    /\ vpc = "idle"
    /\ roundNo = 0
    /\ sample_size_cfg = 0
    /\ params = NoParams
    /\ miner_uids = <<>>
    /\ request = None
    /\ inflight = <<>>
    /\ responses = <<>>
    /\ consumed = {}
    /\ scoreLog = <<>>
    /\ saves = 0
    /\ returned = "none"

\* no request is at the executor
NotHandled == [exc |-> "not called", at |-> 0, synapse |-> CAsynapse([none |-> TRUE]), rule_class_name |-> NotReached, engine |-> NotReached]

NothingSent ==
    [grid |-> NoGrid, steps |-> None, rule_func |-> "", neighborhood_func |-> ""]

MinerUnused ==
    /\ sent = NothingSent
    /\ msynapse = CAsynapse([none |-> TRUE])
    /\ mresult = NotHandled

\* no evolution was run
NotRun ==
    [path |-> "none", rule |-> "", exc |-> "none", frames |-> <<>>,
     engine_neighbourhood |-> None, automaton_bytes |-> None]

EvolveUnused ==
    /\ ca = [ndim |-> 0, grid |-> <<>>]
    /\ timesteps = 0
    /\ neighbourhood_arg = ""
    /\ cellArg = ""
    /\ evolved = NotRun

InitCodec ==
    /\ initial_state \in Grids
    /\ steps \in 0..MaxSteps
    /\ rule_func \in RuleNames
    /\ neighborhood_func \in NeighborhoodNames
    /\ wire = <<>>
    /\ wireKind = "none"
    /\ tampered = FALSE
    /\ decoded = NotCalled
    /\ RulesUnused
    /\ SessionUnused
    /\ MinerUnused
    /\ EvolveUnused

\* metadata_bytes, array_bytes = ca_synapse.serialize_parameters(...)
SerializeParameters ==
    /\ wireKind = "none"
    /\ LET res == serialize_parameters(initial_state, steps, rule_func,
                                       neighborhood_func)
       IN  IF res.err # "none"
           THEN /\ wireKind' = "error"
                /\ wire' = <<>>
           ELSE /\ wireKind' = "parameters"
                /\ wire' = res.ret
    /\ UNCHANGED <<initial_state, steps, rule_func, neighborhood_func,
                   tampered, decoded, otherThanCodec>>

\* pair = synapse.serialize_automaton(automaton)
SerializeAutomaton ==
    /\ wireKind = "none"
    /\ wireKind' = "automaton"
    /\ wire' = serialize_automaton(initial_state)
    /\ UNCHANGED <<initial_state, steps, rule_func, neighborhood_func,
                   tampered, decoded, otherThanCodec>>

\* one byte of the payload block is changed in transit
TamperPayload ==
    /\ wireKind \in {"parameters", "automaton"}
    /\ ~tampered
    /\ decoded.status = "none"
    /\ \E i \in 1..Len(wire[PayloadAt].bytes), b \in 0..MaxByte :
          /\ b # wire[PayloadAt].bytes[i]
          /\ wire' = [wire EXCEPT ![PayloadAt] =
                        RawBytes([@.bytes EXCEPT ![i] = b])]
    /\ tampered' = TRUE
    /\ UNCHANGED <<initial_state, steps, rule_func, neighborhood_func,
                   wireKind, decoded, otherThanCodec>>

\* the tuple the encoder returned for the scenario's arguments
Encoded ==
    IF wireKind = "parameters"
    THEN serialize_parameters(initial_state, steps, rule_func,
                              neighborhood_func).ret
    ELSE serialize_automaton(initial_state)

\* shapes and element types a sender may declare in the metadata
DeclaredShapes == UNION {[1..k -> -1..MaxCells] : k \in 1..2}

\* the sender declares another element type and shape for the payload it
\* sends; the hash stays that of the payload
DeclareShape ==
    /\ wireKind \in {"parameters", "automaton"}
    /\ decoded.status = "none"
    /\ wire = Encoded
    /\ \E d \in DTypeNames, s \in DeclaredShapes :
          /\ <<d, PyList(s)>> # <<wire[MetadataAt].doc.dtype,
                                  wire[MetadataAt].doc.shape>>
          /\ wire' = [wire EXCEPT ![MetadataAt] =
                        JsonText([@.doc EXCEPT !.dtype = d, !.shape = PyList(s)])]
    /\ UNCHANGED <<initial_state, steps, rule_func, neighborhood_func,
                   wireKind, tampered, decoded, otherThanCodec>>

\* the fields of the parameters' metadata next to dtype, shape and hash
ParameterFields == {"steps", "rule_func", "neighborhood_func"}

\* the sender leaves one of the parameter fields out of the metadata
OmitField ==
    /\ wireKind = "parameters"
    /\ decoded.status = "none"
    /\ wire = Encoded
    /\ \E f \in ParameterFields :
          wire' = [wire EXCEPT ![MetadataAt] =
                     JsonText([k \in DOMAIN @.doc \ {f} |-> @.doc[k]])]
    /\ UNCHANGED <<initial_state, steps, rule_func, neighborhood_func,
                   wireKind, tampered, decoded, otherThanCodec>>

\* ca_synapse.deserialize_parameters(metadata_bytes, array_bytes)
DeserializeParametersOnInstance ==
    /\ wireKind = "parameters"
    /\ decoded.status = "none"
    /\ LET bound == BindArgs(deserialize_parameters_nparams, <<SelfObj>>,
                             <<wire[1], wire[2]>>)
       IN  decoded' = IF bound.err # "none" THEN Raised(bound.err, "instance")
                      ELSE deserialize_parameters(bound.args[1], bound.args[2],
                                                  "instance")
    /\ UNCHANGED <<initial_state, steps, rule_func, neighborhood_func,
                   wire, wireKind, tampered, otherThanCodec>>

\* CAsynapse.deserialize_parameters(metadata_bytes, array_bytes)
DeserializeParametersAsFunction ==
    /\ wireKind = "parameters"
    /\ decoded.status = "none"
    /\ LET bound == BindArgs(deserialize_parameters_nparams, <<>>,
                             <<wire[1], wire[2]>>)
       IN  decoded' = IF bound.err # "none" THEN Raised(bound.err, "function")
                      ELSE deserialize_parameters(bound.args[1], bound.args[2],
                                                  "function")
    /\ UNCHANGED <<initial_state, steps, rule_func, neighborhood_func,
                   wire, wireKind, tampered, otherThanCodec>>

\* synapse.deserialize_automaton(*pair): the encoder's tuple, positionally
DeserializeAutomatonPositional ==
    /\ wireKind = "automaton"
    /\ decoded.status = "none"
    /\ LET bound == BindArgs(deserialize_automaton_nparams, <<SelfObj>>,
                             <<wire[1], wire[2]>>)
       IN  decoded' = IF bound.err # "none" THEN Raised(bound.err, "positional")
                      ELSE deserialize_automaton(bound.args[1], bound.args[2],
                                                 bound.args[3], "positional")
    /\ UNCHANGED <<initial_state, steps, rule_func, neighborhood_func,
                   wire, wireKind, tampered, otherThanCodec>>

\* synapse.deserialize_automaton(automaton_metadata_bytes=metadata,
\*                               automaton_bytes=payload)
DeserializeAutomatonByName ==
    /\ wireKind = "automaton"
    /\ decoded.status = "none"
    /\ LET bound == BindArgs(deserialize_automaton_nparams, <<SelfObj>>,
                             <<wire[MetadataAt], wire[PayloadAt]>>)
       IN  decoded' = IF bound.err # "none" THEN Raised(bound.err, "by name")
                      ELSE deserialize_automaton(bound.args[1], bound.args[2],
                                                 bound.args[3], "by name")
    /\ UNCHANGED <<initial_state, steps, rule_func, neighborhood_func,
                   wire, wireKind, tampered, otherThanCodec>>

NextCodec ==
    \/ SerializeParameters
    \/ SerializeAutomaton
    \/ TamperPayload
    \/ DeclareShape
    \/ OmitField
    \/ DeserializeParametersOnInstance
    \/ DeserializeParametersAsFunction
    \/ DeserializeAutomatonPositional
    \/ DeserializeAutomatonByName

SpecCodec == InitCodec /\ [][NextCodec]_vars

(***************************************************************************)
(* One rule application: the engine hands a window, the state of its       *)
(* centre cell and the timestep to a rule.                                 *)
(***************************************************************************)
InitRules ==
    /\ n \in Windows
    /\ c = Centre(n)
    /\ t \in 1..MaxSteps
    /\ ruleOut = NoRule
    /\ CodecUnused
    /\ SessionUnused
    /\ MinerUnused
    /\ EvolveUnused

Ran(rule, value) ==
    /\ ruleOut = NoRule
    /\ ruleOut' = [rule |-> rule, value |-> value]
    /\ UNCHANGED <<n, c, t, otherThanRules>>

RulesetsConway == Ran("rulesets.ConwayRule", rulesets_ConwayRule(n, c, t))
RulesetsHighLife == Ran("rulesets.HighLifeRule", rulesets_HighLifeRule(n, c, t))
RulesetsDayAndNight ==
    Ran("rulesets.DayAndNightRule", rulesets_DayAndNightRule(n, c, t))
ProtocolConway == Ran("protocol.ConwayRule", protocol_ConwayRule(n, c, t))
ProtocolHighLife == Ran("protocol.HighLifeRule", protocol_HighLifeRule(n, c, t))
ProtocolDayAndNight ==
    Ran("protocol.DayAndNightRule", protocol_DayAndNightRule(n, c, t))
ProtocolBriansBrain ==
    Ran("protocol.BriansBrainRule", protocol_BriansBrainRule(n, c, t))
ProtocolSeeds == Ran("protocol.SeedsRule", protocol_SeedsRule(n, c, t))
CaRulesConway == Ran("ca_rules.ConwayRule", ca_rules_ConwayRule(n, c, t))
CaRulesHighLife == Ran("ca_rules.HighLifeRule", ca_rules_HighLifeRule(n, c, t))
CaRulesDayAndNight ==
    Ran("ca_rules.DayAndNightRule", ca_rules_DayAndNightRule(n, c, t))
CaRulesBriansBrain ==
    Ran("ca_rules.BriansBrainRule", ca_rules_BriansBrainRule(n, c, t))
CaRulesSeeds == Ran("ca_rules.SeedsRule", ca_rules_SeedsRule(n, c, t))

NextRules ==
    \/ RulesetsConway
    \/ RulesetsHighLife
    \/ RulesetsDayAndNight
    \/ ProtocolConway
    \/ ProtocolHighLife
    \/ ProtocolDayAndNight
    \/ ProtocolBriansBrain
    \/ ProtocolSeeds
    \/ CaRulesConway
    \/ CaRulesHighLife
    \/ CaRulesDayAndNight
    \/ CaRulesBriansBrain
    \/ CaRulesSeeds

SpecRules == InitRules /\ [][NextRules]_vars

(***************************************************************************)
(* A round of the requester: forward() of automata/validator/forward.py    *)
(* with query_automata_miners, the executors answering, and the scoring.   *)
(***************************************************************************)
Uids == 1..MaxMiners

\* get_random_uids(self, k): k distinct uids in any order
UidSamples(k) ==
    {u \in [1..k -> Uids] : \A i, j \in 1..k : i # j => u[i] # u[j]}

Pending ==
    [kind |-> "pending", exc |-> "none", synapse |-> CAsynapse([none |-> TRUE])]

InitSession ==
    /\ vpc = "idle"
    /\ roundNo = 0
    /\ sample_size_cfg \in 0..MaxMiners
    /\ params = NoParams
    /\ miner_uids = <<>>
    /\ request = None
    /\ inflight = <<>>
    /\ responses = <<>>
    /\ consumed = {}
    /\ scoreLog = <<>>
    /\ saves = 0
    /\ returned = "none"
    /\ CodecUnused
    /\ RulesUnused
    /\ MinerUnused
    /\ EvolveUnused

\* forward(): self.sync()
Sync ==
    /\ vpc \in {"idle", "awaiting forward"}
    /\ roundNo < MaxRounds
    /\ roundNo' = roundNo + 1
    /\ vpc' = "synced"
    /\ params' = NoParams
    /\ miner_uids' = <<>>
    /\ request' = None
    /\ inflight' = <<>>
    /\ responses' = <<>>
    /\ consumed' = {}
    /\ scoreLog' = <<>>
    /\ saves' = 0
    /\ returned' = "none"
    /\ UNCHANGED <<sample_size_cfg, otherThanSession>>

\* forward(): steps, rule_instance = get_random_params()
GetRandomParams ==
    /\ vpc = "synced"
    /\ params' \in get_random_params
    /\ vpc' = "params"
    /\ UNCHANGED <<roundNo, sample_size_cfg, miner_uids, request, inflight,
                   responses, consumed, scoreLog, saves, returned,
                   otherThanSession>>

\* query_automata_miners: check_uid_availability or get_random_uids raises,
\* or the sample size is zero: ([], []) is returned and nothing is sent
QueryNothing ==
    /\ vpc = "params"
    /\ LET sample_size == IF sample_size_cfg < MaxMiners
                          THEN sample_size_cfg ELSE MaxMiners
       IN  \E raised \in BOOLEAN : raised \/ sample_size <= 0
    /\ responses' = <<>>
    /\ miner_uids' = <<>>
    /\ vpc' = "responded"
    /\ UNCHANGED <<roundNo, sample_size_cfg, params, request, inflight,
                   consumed, scoreLog, saves, returned, otherThanSession>>

\* query_automata_miners: the uids are sampled and the synapse
\* CAsynapse(steps=steps, rule_instance=rule_instance) is handed to
\* self.dendrite.query
QuerySend ==
    /\ vpc = "params"
    /\ LET sample_size == IF sample_size_cfg < MaxMiners
                          THEN sample_size_cfg ELSE MaxMiners
       IN  /\ sample_size > 0
           /\ miner_uids' \in UidSamples(sample_size)
    /\ request' = Some(CAsynapse([steps |-> params.steps,
                                  rule_instance |-> params.rule_instance]))
    /\ inflight' = [i \in 1..Len(miner_uids') |-> Pending]
    /\ vpc' = "awaiting"
    /\ UNCHANGED <<roundNo, sample_size_cfg, params, responses, consumed,
                   scoreLog, saves, returned, otherThanSession>>

\* miner.forward on a synapse object the calls of the round share: the call
\* handles the synapse as the answer before it left it
MinerForwardOnSharedSynapse(i) ==
    /\ vpc = "awaiting"
    /\ inflight[i].kind = "pending"
    /\ LET answered == {j \in 1..Len(inflight) : inflight[j].kind # "pending"}
           shared == IF answered = {} THEN request[1]
                     ELSE inflight[CHOOSE j \in answered : TRUE].synapse
           out == miner_forward(shared)
       IN  inflight' = [inflight EXCEPT ![i] =
                          [kind |-> "miner", exc |-> out.exc,
                           synapse |-> out.synapse]]
    /\ UNCHANGED <<vpc, roundNo, sample_size_cfg, params, miner_uids, request,
                   responses, consumed, scoreLog, saves, returned,
                   otherThanSession>>

\* the executor of the repository handles the request: miner.forward
MinerForward(i) ==
    /\ vpc = "awaiting"
    /\ inflight[i].kind = "pending"
    /\ LET out == miner_forward(request[1])
       IN  inflight' = [inflight EXCEPT ![i] =
                          [kind |-> "miner", exc |-> out.exc,
                           synapse |-> out.synapse]]
    /\ UNCHANGED <<vpc, roundNo, sample_size_cfg, params, miner_uids, request,
                   responses, consumed, scoreLog, saves, returned,
                   otherThanSession>>

\* an executor outside the repository fills in the two response blocks
ForeignReply(i) ==
    /\ vpc = "awaiting"
    /\ inflight[i].kind = "pending"
    /\ \E reply \in ForeignReplies :
          inflight' = [inflight EXCEPT ![i] =
              [kind |-> "foreign", exc |-> "none",
               synapse |-> [request[1] EXCEPT
                              !.automaton_bytes = Some(reply[1]),
                              !.automaton_metadata_bytes = Some(reply[2])]]]
    /\ UNCHANGED <<vpc, roundNo, sample_size_cfg, params, miner_uids, request,
                   responses, consumed, scoreLog, saves, returned,
                   otherThanSession>>

\* no answer within the deadline: the dendrite gives the synapse back as sent
Timeout(i) ==
    /\ vpc = "awaiting"
    /\ inflight[i].kind = "pending"
    /\ inflight' = [inflight EXCEPT ![i] =
                      [kind |-> "timeout", exc |-> "none",
                       synapse |-> request[1]]]
    /\ UNCHANGED <<vpc, roundNo, sample_size_cfg, params, miner_uids, request,
                   responses, consumed, scoreLog, saves, returned,
                   otherThanSession>>

\* self.dendrite.query returns one synapse per queried axon
QueryReturn ==
    /\ vpc = "awaiting"
    /\ \A i \in 1..Len(inflight) : inflight[i].kind # "pending"
    /\ responses' = inflight
    /\ vpc' = "responded"
    /\ UNCHANGED <<roundNo, sample_size_cfg, params, miner_uids, request,
                   inflight, consumed, scoreLog, saves, returned,
                   otherThanSession>>

\* self.dendrite.query raises or returns None: the except clause logs,
\* sleeps and ([], miner_uids) is returned
QueryFails ==
    /\ vpc = "awaiting"
    /\ responses' = <<>>
    /\ vpc' = "responded"
    /\ UNCHANGED <<roundNo, sample_size_cfg, params, miner_uids, request,
                   inflight, consumed, scoreLog, saves, returned,
                   otherThanSession>>

\* forward(): rewards = get_rewards(self, query=steps, responses=responses)
GetRewards ==
    /\ vpc = "responded"
    /\ consumed' = consumed \cup DOMAIN get_rewards(params.steps, responses)
    /\ vpc' = "rewarded"
    /\ UNCHANGED <<roundNo, sample_size_cfg, params, miner_uids, request,
                   inflight, responses, scoreLog, saves, returned,
                   otherThanSession>>

\* forward(): scores = compute_scores(self, responses);
\* self.update_scores(miner_uids, scores); self.save_state(); an exception
\* of compute_scores is caught by forward, which then returns None
ComputeScores ==
    /\ vpc = "rewarded"
    /\ LET out == compute_scores(responses)
       IN  IF out.exc # "none"
           THEN /\ returned' = "None"
                /\ UNCHANGED <<consumed, scoreLog, saves>>
           ELSE /\ consumed' = consumed \cup (1..Len(responses))
                /\ scoreLog' = Append(scoreLog, <<miner_uids, out.scores>>)
                /\ saves' = saves + 1
                /\ returned' = "responses"
    /\ vpc' = "idle"
    /\ UNCHANGED <<roundNo, sample_size_cfg, params, miner_uids, request,
                   inflight, responses, otherThanSession>>

NextSession ==
    \/ Sync
    \/ GetRandomParams
    \/ QueryNothing
    \/ QuerySend
    \/ \E i \in 1..MaxMiners : i <= Len(inflight) /\ MinerForward(i)
    \/ \E i \in 1..MaxMiners : i <= Len(inflight) /\ ForeignReply(i)
    \/ \E i \in 1..MaxMiners : i <= Len(inflight) /\ Timeout(i)
    \/ QueryReturn
    \/ QueryFails
    \/ GetRewards
    \/ ComputeScores

SpecSession == InitSession /\ [][NextSession]_vars

(***************************************************************************)
(* Validator.forward of neurons/validator.py: its own round, then the      *)
(* round of forward.py it awaits.                                          *)
(***************************************************************************)
\* a response self.query_network gives back: a synapse, nothing filled in
NetworkResponse ==
    [kind |-> "network", exc |-> "none", synapse |-> CAsynapse([none |-> TRUE])]

\* self.query_network(initial_state, steps, rule_func, neighborhood_func):
\* no file of src/ defines the method; either the attribute is missing, or
\* the base class has it and it returns the responses of the executors it
\* queried, none included
query_network ==
    {[exc |-> "AttributeError", responses |-> <<>>]}
    \cup {[exc |-> "none", responses |-> [i \in 1..k |-> NetworkResponse]] :
             k \in 0..MaxMiners}

\* Validator.compute_scores(responses): response.payload is read of every
\* element, the sums are divided by their total; of no element the result is
\* the empty array
Validator_compute_scores(resps) ==
    IF Len(resps) > 0
    THEN [exc |-> "AttributeError", scores |-> <<>>]
    ELSE [exc |-> "none", scores |-> <<>>]

\* Validator.forward, lines 90-119: sync, get_random_params, query_network,
\* miner_uids = [], get_rewards, self.compute_scores(rewards),
\* self.update_scores(rewards, miner_uids), self.save_state(); an exception
\* leaves forward, otherwise forward(self) of forward.py is awaited
ValidatorForward ==
    /\ vpc = "idle"
    /\ roundNo < MaxRounds
    /\ roundNo' = roundNo + 1
    /\ params' = NoParams
    /\ request' = None
    /\ inflight' = <<>>
    /\ miner_uids' = <<>>
    /\ \E out \in query_network :
          LET rewards == get_rewards(roundNo, out.responses)
              scored == Validator_compute_scores(rewards)
          IN  IF out.exc # "none"
              THEN /\ responses' = <<>>
                   /\ consumed' = {}
                   /\ scoreLog' = <<>>
                   /\ saves' = 0
                   /\ returned' = out.exc
                   /\ vpc' = "idle"
              ELSE IF scored.exc # "none"
              THEN /\ responses' = out.responses
                   /\ consumed' = DOMAIN rewards
                   /\ scoreLog' = <<>>
                   /\ saves' = 0
                   /\ returned' = scored.exc
                   /\ vpc' = "idle"
              ELSE /\ responses' = out.responses
                   /\ consumed' = DOMAIN rewards
                   /\ scoreLog' = <<<<miner_uids', rewards>>>>
                   /\ saves' = 1
                   /\ returned' = "none"
                   /\ vpc' = "awaiting forward"
    /\ UNCHANGED <<sample_size_cfg, otherThanSession>>

NextValidator ==
    \/ ValidatorForward
    \/ NextSession

SpecValidator == InitSession /\ [][NextValidator]_vars

(***************************************************************************)
(* One request at the executor: a requester that encodes its parameters    *)
(* with the codec sends them, miner.forward handles the synapse.           *)
(***************************************************************************)
\* Validator.get_random_params: rule_funcs and neighborhood_funcs, the lists
\* random.choice draws from
Validator_rule_funcs == {"Conway", "HighLife", "DayAndNight"}
Validator_neighborhood_funcs == {"Moore", "Von Neumann"}

\* rule identifiers a request may name: those the requester samples and two
\* others
RequestRuleNames == Validator_rule_funcs \cup {"Rule30", "Seeds"}

\* neighbourhood strings a request may name: those the requester samples
\* and the engine's spelling
RequestNeighborhoodNames == Validator_neighborhood_funcs \cup {"von Neumann"}

\* the steps field of the metadata: absent, or an int
RequestSteps == {None} \cup {Some(k) : k \in -1..MaxSteps}

\* the metadata a requester writes for a grid: as serialize_parameters
\* writes it, the steps field as the requester chose to send it
RequestMetadata(g, st, rf, nf) ==
    LET fields == IF st = None
                  THEN {"dtype", "shape", "hash", "rule_func",
                        "neighborhood_func"}
                  ELSE {"dtype", "shape", "hash", "steps", "rule_func",
                        "neighborhood_func"}
        metadata == [k \in fields |->
                        CASE k = "dtype" -> g.dtype
                          [] k = "shape" -> g.shape
                          [] k = "hash" -> sha256_hexdigest(RawBytes(tobytes(g)))
                          [] k = "steps" -> st[1]
                          [] k = "rule_func" -> rf
                          [] k = "neighborhood_func" -> nf]
    IN  json_dumps(metadata)

InitMiner ==
    /\ \E g \in Grids, st \in RequestSteps, rf \in RequestRuleNames,
          nf \in RequestNeighborhoodNames :
          /\ sent = [grid |-> g, steps |-> st, rule_func |-> rf,
                     neighborhood_func |-> nf]
          /\ msynapse = CAsynapse([metadata_bytes |-> RequestMetadata(g, st, rf, nf),
                                   array_bytes |-> RawBytes(tobytes(g))])
    /\ mresult = NotHandled
    /\ CodecUnused
    /\ RulesUnused
    /\ SessionUnused
    /\ EvolveUnused

\* the axon dispatches the request: await miner.forward(synapse)
Forward ==
    /\ mresult = NotHandled
    /\ mresult' = miner_forward(msynapse)
    /\ UNCHANGED <<sent, msynapse, otherThanMiner>>

NextMiner == Forward

SpecMiner == InitMiner /\ [][NextMiner]_vars

(***************************************************************************)
(* The evolution engine the repository calls: cellpylib's evolve2d and     *)
(* evolve.  The array handed over holds the initial grid as its one        *)
(* timestep (ndim 3 for evolve2d, a one-row matrix for evolve); timesteps  *)
(* counts the grids of the result, the initial one included; the grid is   *)
(* periodic.                                                               *)
(***************************************************************************)
\* side of the grids evolved: the 3x3 grid of tests/test_serialization.py
GridSide == 3

Matrices == [1..GridSide -> [1..GridSide -> BinaryStates]]
Rows1D == [1..GridSide -> BinaryStates]

\* the neighbourhood strings evolve2d knows
EngineNeighbourhoods == {"Moore", "von Neumann"}

\* index i moved by d on a ring of size k
Wrap(i, d, k) == ((i - 1 + d + k) % k) + 1

\* the window of radius r around cell (i, j); under von Neumann the corners
\* are masked and count for nothing in np.sum
WindowAt(grid, i, j, nb) ==
    Window2D([di \in 1..Width |-> [dj \in 1..Width |->
        IF nb = "von Neumann" /\ di # r + 1 /\ dj # r + 1 THEN 0
        ELSE grid[Wrap(i, di - r - 1, Len(grid))]
                 [Wrap(j, dj - r - 1, Len(grid[1]))]]])

\* the window of radius r around cell j of a row
WindowAt1D(row, j) ==
    Window1D([dj \in 1..Width |-> row[Wrap(j, dj - r - 1, Len(row))]])

\* what a rule receives as c: the state of the cell, or the cell's index
\* (a non-empty tuple in two dimensions, which a rule that tests "c and ..."
\* takes as true)
CellArgs == {"state", "index"}
CentreArg(mode, grid, i, j) == IF mode = "state" THEN grid[i][j] ELSE 1

\* cpl.nks_rule(n, rule): the window read as a binary number selects the
\* bit of the rule number
nks_rule(w, rule) ==
    LET row == w.rows[1]
        index == 4 * row[1] + 2 * row[2] + row[3]
    IN  IntV((rule \div (2 ^ index)) % 2)

\* Rule30.rule_function, Rule110.rule_function
protocol_Rule30(nn, cc, tt) == nks_rule(nn, 30)
protocol_Rule110(nn, cc, tt) == nks_rule(nn, 110)

\* rule_instance.apply_rule / rule_instance.rule_function
ApplyRule(rule, nn, cc, tt) ==
    CASE rule = "rulesets.ConwayRule" -> rulesets_ConwayRule(nn, cc, tt)
      [] rule = "rulesets.HighLifeRule" -> rulesets_HighLifeRule(nn, cc, tt)
      [] rule = "rulesets.DayAndNightRule" -> rulesets_DayAndNightRule(nn, cc, tt)
      [] rule = "protocol.ConwayRule" -> protocol_ConwayRule(nn, cc, tt)
      [] rule = "protocol.HighLifeRule" -> protocol_HighLifeRule(nn, cc, tt)
      [] rule = "protocol.DayAndNightRule" -> protocol_DayAndNightRule(nn, cc, tt)
      [] rule = "protocol.Rule30" -> protocol_Rule30(nn, cc, tt)
      [] rule = "protocol.Rule110" -> protocol_Rule110(nn, cc, tt)

\* one generation: every cell from the previous grid
Generation(grid, rule, nb, mode, tt) ==
    [i \in 1..Len(grid) |-> [j \in 1..Len(grid[1]) |->
        ApplyRule(rule, WindowAt(grid, i, j, nb),
                  CentreArg(mode, grid, i, j), tt)]]

Generation1D(row, rule, tt) ==
    [j \in 1..Len(row) |-> ApplyRule(rule, WindowAt1D(row, j), j - 1, tt)]

\* array[t][row][col] = value: an int or a bool is stored as a number
Stored(values) == [i \in 1..Len(values) |-> [j \in 1..Len(values[1]) |->
                      values[i][j].v[1]]]
Storable(values) ==
    \A i \in 1..Len(values) : \A j \in 1..Len(values[1]) : IsScalar(values[i][j])

\* the grids of timesteps tt .. total - 1, each from the one before
RECURSIVE Generations(_, _, _, _, _, _)
Generations(grid, rule, nb, mode, tt, total) ==
    IF tt >= total THEN [exc |-> "none", frames |-> <<>>]
    ELSE IF nb \notin EngineNeighbourhoods
         THEN [exc |-> "Exception", frames |-> <<>>]
    ELSE LET values == Generation(grid, rule, nb, mode, tt)
         IN  IF ~Storable(values) THEN [exc |-> "TypeError", frames |-> <<>>]
             ELSE LET rest == Generations(Stored(values), rule, nb, mode,
                                          tt + 1, total)
                  IN  [exc |-> rest.exc,
                       frames |-> IF rest.exc = "none"
                                  THEN <<Stored(values)>> \o rest.frames
                                  ELSE <<>>]

RECURSIVE Generations1D(_, _, _, _)
Generations1D(row, rule, tt, total) ==
    IF tt >= total THEN <<>>
    ELSE LET next == Stored(<<Generation1D(row, rule, tt)>>)
         IN  <<next>> \o Generations1D(next[1], rule, tt + 1, total)

\* cpl.evolve2d(cellular_automaton, timesteps, apply_rule, r, neighbourhood)
cpl_evolve2d(cellular_automaton, total, rule, nb, mode) ==
    IF cellular_automaton.ndim # 3
    THEN [exc |-> "ValueError", frames |-> <<>>]
    ELSE LET rest == Generations(cellular_automaton.grid, rule, nb, mode,
                                 1, total)
         IN  [exc |-> rest.exc,
              frames |-> IF rest.exc = "none"
                         THEN <<cellular_automaton.grid>> \o rest.frames
                         ELSE <<>>]

\* cpl.evolve(cellular_automaton, timesteps, apply_rule, r)
cpl_evolve(cellular_automaton, total, rule) ==
    [exc |-> "none",
     frames |-> <<cellular_automaton.grid>>
                \o Generations1D(cellular_automaton.grid[1], rule, 1, total)]

(***************************************************************************)
(* miner.evolve_automata, Simulate and Simulate1D                          *)
(***************************************************************************)
\* miner.evolve_automata(initial_state, steps, rule_instance, r,
\*                       neighbourhood_func, memoize)
evolve_automata(state, st, rule, nf, mode) ==
    LET automaton == cpl_evolve2d(state, st, rule, nf, mode)
    IN  [path |-> "miner.evolve_automata", rule |-> rule,
         exc |-> automaton.exc, frames |-> automaton.frames,
         engine_neighbourhood |-> Some(nf), automaton_bytes |-> None]

\* Simulate.__init__: neighbourhood_type
Simulate_neighbourhood_type(neighbourhood_type) ==
    IF neighbourhood_type \notin {"Moore", "von Neumann"} THEN "Moore"
    ELSE neighbourhood_type

\* Simulate(ca, timesteps, rule_instance, r, neighbourhood_type).run()
Simulate_run(state, total, rule, neighbourhood_type, mode) ==
    LET nb == Simulate_neighbourhood_type(neighbourhood_type)
        out == cpl_evolve2d(state, total, rule, nb, mode)
    IN  [path |-> "Simulate.run", rule |-> rule,
         exc |-> IF out.exc # "none" THEN "RuntimeError" ELSE "none",
         frames |-> out.frames,
         engine_neighbourhood |-> Some(nb), automaton_bytes |-> None]

\* Simulate1D(ca, timesteps, rule_instance, r).run()
Simulate1D_run(state, total, rule) ==
    LET out == cpl_evolve(state, total, rule)
    IN  [path |-> "Simulate1D.run", rule |-> rule,
         exc |-> IF out.exc # "none" THEN "RuntimeError" ELSE "none",
         frames |-> out.frames,
         engine_neighbourhood |-> None, automaton_bytes |-> None]

\* automaton.tobytes() of miner.forward: the cells of the array
\* evolve_automata returned, in C order, one entry a cell
automaton_tobytes(frames) == Flatten(Flatten(frames))

(***************************************************************************)
(* One evolution.                                                          *)
(***************************************************************************)
InitEvolve ==
    /\ ca \in {[ndim |-> d, grid |-> g] : d \in {2, 3}, g \in Matrices}
              \cup {[ndim |-> 2, grid |-> <<row>>] : row \in Rows1D}
    /\ timesteps \in 1..MaxTimesteps
    /\ neighbourhood_arg \in RequestNeighborhoodNames
    /\ cellArg \in CellArgs
    /\ evolved = NotRun
    /\ CodecUnused
    /\ RulesUnused
    /\ SessionUnused
    /\ MinerUnused

\* self.evolve_automata(initial_state, steps, rule_instance, 1,
\*                      neighbourhood_func, None) with a rule of the registry
EvolveAutomata ==
    /\ evolved = NotRun
    /\ Len(ca.grid) = GridSide
    /\ \E rule \in {"rulesets.ConwayRule", "rulesets.HighLifeRule",
                    "rulesets.DayAndNightRule"} :
          evolved' = evolve_automata(ca, timesteps, rule, neighbourhood_arg, cellArg)
    /\ UNCHANGED <<ca, timesteps, neighbourhood_arg, cellArg, otherThanEvolve>>

\* Simulate(...).run() with a two-dimensional rule of cell_automata
SimulateRun ==
    /\ evolved = NotRun
    /\ Len(ca.grid) = GridSide
    /\ \E rule \in {"protocol.ConwayRule", "protocol.HighLifeRule",
                    "protocol.DayAndNightRule"} :
          evolved' = Simulate_run(ca, timesteps, rule, neighbourhood_arg, cellArg)
    /\ UNCHANGED <<ca, timesteps, neighbourhood_arg, cellArg, otherThanEvolve>>

\* Simulate1D(...).run() with a Wolfram rule on a one-row array
Simulate1DRun ==
    /\ evolved = NotRun
    /\ Len(ca.grid) = 1
    /\ \E rule \in {"protocol.Rule30", "protocol.Rule110"} :
          evolved' = Simulate1D_run(ca, timesteps, rule)
    /\ UNCHANGED <<ca, timesteps, neighbourhood_arg, cellArg, otherThanEvolve>>

\* miner.forward after self.evolve_automata returned:
\* automaton = automaton.tobytes(); synapse.automaton_bytes = automaton
Respond ==
    /\ evolved.path = "miner.evolve_automata"
    /\ evolved.exc = "none"
    /\ evolved.automaton_bytes = None
    /\ evolved' = [evolved EXCEPT
                      !.automaton_bytes = Some(automaton_tobytes(evolved.frames))]
    /\ UNCHANGED <<ca, timesteps, neighbourhood_arg, cellArg, otherThanEvolve>>

NextEvolve ==
    \/ EvolveAutomata
    \/ SimulateRun
    \/ Simulate1DRun
    \/ Respond

SpecEvolve == InitEvolve /\ [][NextEvolve]_vars

(***************************************************************************)
(* Properties of the codec.                                                *)
(***************************************************************************)
\* The body of deserialize_parameters, reached through the class, inverts
\* serialize_parameters.
RoundTripAsFunction ==
    (decoded.call = "function" /\ wire = Encoded) =>
        /\ decoded.status = "ok"
        /\ decoded.grid = initial_state
        /\ decoded.steps = Some(steps)
        /\ decoded.rule_func = Some(rule_func)
        /\ decoded.neighborhood_func = Some(neighborhood_func)

\* C1: round trip.  Calling deserialize_parameters on a CAsynapse instance
\* with the (metadata_bytes, array_bytes) pair serialize_parameters returned
\* yields the encoded grid bit for bit (dtype, shape, buffer) and the same
\* steps, rule_func and neighborhood_func.
C1_RoundTripOnInstance ==
    (decoded.call = "instance" /\ wire = Encoded) =>
        /\ decoded.status = "ok"
        /\ decoded.grid = initial_state
        /\ decoded.steps = Some(steps)
        /\ decoded.rule_func = Some(rule_func)
        /\ decoded.neighborhood_func = Some(neighborhood_func)

C5_SymmetricEnvelope ==
    /\ wireKind \in {"parameters", "automaton"} =>
          (wire[1].kind = "json" /\ wire[2].kind = "raw")
    /\ (decoded.call = "positional" /\ wire = Encoded) =>
          (decoded.status = "ok" /\ decoded.grid = initial_state)

\* C5: the positional round trip the symmetric order is claimed to give:
\* for every grid A, deserialize_automaton(*serialize_automaton(A)) returns A.
C5_PositionalRoundTrip ==
    (decoded.call = "positional" /\ wire = Encoded) =>
        (decoded.status = "ok" /\ decoded.grid = initial_state)

(***************************************************************************)
(* Properties of the rule engines.                                         *)
(***************************************************************************)
\* the returned value is a cell state (an int or a bool, True being 1)
ReturnsCell(value, states) == IsScalar(value) /\ value.v[1] \in states

\* the life-like policy of the rule table: a live centre survives with a
\* number of live neighbours in survive, a dead centre is born with one in
\* born; the neighbours exclude the centre
LifeLike(w, survive, born) ==
    IF Centre(w) = 1
    THEN IF NeighboursIn(w, 1) \in survive THEN 1 ELSE 0
    ELSE IF NeighboursIn(w, 1) \in born THEN 1 ELSE 0

\* the implementations that sum the window with np.sum (a scalar on a 2-D
\* window); those of ca_rules.py use the builtin sum and are checked apart
ConwayRules == {"rulesets.ConwayRule", "protocol.ConwayRule"}
HighLifeRules == {"rulesets.HighLifeRule", "protocol.HighLifeRule"}
DayAndNightRules == {"rulesets.DayAndNightRule", "protocol.DayAndNightRule"}
SeedsRules == {"protocol.SeedsRule", "ca_rules.SeedsRule"}
BriansBrainRules == {"protocol.BriansBrainRule", "ca_rules.BriansBrainRule"}

\* C6: Conway.  For every binary 3x3 Moore window the ConwayRule of
\* rulesets.py and the one of cell_automata/protocol.py return 1 for a live centre with 2 or 3 live neighbours, 0 for
\* a live centre with fewer than 2 or more than 3, 1 for a dead centre with
\* exactly 3 and 0 for any other dead centre (neighbours exclude the centre).
C6_Conway ==
    (ruleOut.rule \in ConwayRules /\ n.ndim = 2 /\ IsBinary(n)) =>
        /\ ReturnsCell(ruleOut.value, BinaryStates)
        /\ ruleOut.value.v[1] = LifeLike(n, {2, 3}, {3})

\* C7: HighLife.  For every binary 3x3 Moore window the HighLifeRule of
\* rulesets.py and the one of cell_automata/protocol.py let a live centre survive exactly with 2 or 3 live
\* neighbours and a dead centre be born exactly with 3 or 6.
C7_HighLife ==
    (ruleOut.rule \in HighLifeRules /\ n.ndim = 2 /\ IsBinary(n)) =>
        /\ ReturnsCell(ruleOut.value, BinaryStates)
        /\ ruleOut.value.v[1] = LifeLike(n, {2, 3}, {3, 6})

\* C8: Day and Night.  For every binary 3x3 Moore window the DayAndNightRule
\* of rulesets.py and the one of cell_automata/protocol.py let a live centre survive exactly with
\* 2 or 3 live neighbours and a dead centre be born exactly with 3, 6, 7 or 8.
C8_DayAndNight ==
    (ruleOut.rule \in DayAndNightRules /\ n.ndim = 2 /\ IsBinary(n)) =>
        /\ ReturnsCell(ruleOut.value, BinaryStates)
        /\ ruleOut.value.v[1] = LifeLike(n, {2, 3}, {3, 6, 7, 8})

\* C9: Seeds.  For every binary window (1-D or 2-D) and its centre state a
\* live centre becomes 0 whatever its neighbours are, and a dead centre
\* becomes 1 exactly when exactly 2 of its neighbours are live.
C9_Seeds ==
    (ruleOut.rule \in SeedsRules /\ IsBinary(n)) =>
        /\ ReturnsCell(ruleOut.value, BinaryStates)
        /\ ruleOut.value.v[1] = LifeLike(n, {}, {2})

\* C10: Brian's Brain is total onto {0,1,2}.  For every window over
\* {0,1,2} a firing centre (1) becomes 2, a dying centre (2) becomes 0, and a
\* dead centre (0) becomes 1 exactly when exactly 2 neighbours are firing
\* (dying neighbours do not count) and otherwise stays 0.
C10_BriansBrain ==
    ruleOut.rule \in BriansBrainRules =>
        /\ ReturnsCell(ruleOut.value, CellStates)
        /\ ruleOut.value.v[1] =
              (IF c = 1 THEN 2
               ELSE IF c = 2 THEN 0
               ELSE IF NeighboursIn(n, 1) = 2 THEN 1 ELSE 0)

\* On a 2-D window the life-like rules of ca_rules.py return no cell state
\* for a dead centre (an array of column comparisons) and raise for a live one.
CaRulesReturnCell ==
    (ruleOut.rule \in {"ca_rules.ConwayRule", "ca_rules.HighLifeRule",
                       "ca_rules.DayAndNightRule"} /\ n.ndim = 2) =>
        ReturnsCell(ruleOut.value, BinaryStates)

\* The rules of automata/utils/rulesets.py alone follow the rule table.
RulesetsFollowTable ==
    (n.ndim = 2 /\ IsBinary(n)) =>
        /\ ruleOut.rule = "rulesets.ConwayRule" =>
              ruleOut.value = IntV(LifeLike(n, {2, 3}, {3}))
        /\ ruleOut.rule = "rulesets.HighLifeRule" =>
              ruleOut.value = IntV(LifeLike(n, {2, 3}, {3, 6}))
        /\ ruleOut.rule = "rulesets.DayAndNightRule" =>
              ruleOut.value = IntV(LifeLike(n, {2, 3}, {3, 6, 7, 8}))

(***************************************************************************)
(* Properties of the requester's round.                                    *)
(***************************************************************************)
\* C3: a response that scoring has consumed (get_rewards, compute_scores,
\* update_scores) is one whose envelope the codec decoded with a matching
\* digest; a response without envelope or with a mismatching digest is
\* never consumed.
C3_ScoredOnlyVerified ==
    \A i \in consumed : i \in 1..Len(responses) /\ Verifies(responses[i].synapse)

\* C4: the request handed to the transport, and the response the
\* repository's executor gives back, carry a payload block and a metadata
\* block, and the metadata's hash is the digest of the payload.
C4_EnvelopesOnTransport ==
    /\ request # None => IsRequestEnvelope(request[1])
    /\ \A i \in 1..Len(inflight) :
          inflight[i].kind = "miner" => IsResponseEnvelope(inflight[i].synapse)

\* the executor of the repository never gets past its first statement
MinerAlwaysRaises ==
    \A i \in 1..Len(inflight) :
        inflight[i].kind = "miner" =>
            inflight[i].exc = "TypeError" /\ inflight[i].synapse = request[1]

\* forward of automata/validator/forward.py never records a score
NoScoreRecorded == scoreLog = <<>> /\ saves = 0 /\ returned # "responses"

\* no foreign response with a mismatching digest reaches scoring (violated)
NoForgedReplyScored ==
    ~ \E i \in consumed :
          /\ responses[i].kind = "foreign"
          /\ ~ IsResponseEnvelope(responses[i].synapse)

(***************************************************************************)
(* Properties of the executor.                                             *)
(***************************************************************************)
\* the exception of line 107: raise ValueError("Rule ... is not recognized.")
UnknownRuleAt == 107

\* C11: a request whose rule identifier is not in the registry leaves
\* miner.forward with the unknown-rule error of the registry lookup, raised
\* before the evolution is called, and with no response payload set.
C11_UnknownRuleRejected ==
    (mresult # NotHandled /\ sent.rule_func \notin DOMAIN rule_class_mapping) =>
        /\ mresult.exc = "ValueError"
        /\ mresult.at = UnknownRuleAt
        /\ mresult.synapse.automaton_bytes = None

\* whatever the request, miner.forward ends at its first statement and the
\* synapse goes back as it came
ForwardStopsAtDecode ==
    mresult # NotHandled =>
        /\ mresult.exc = "TypeError"
        /\ mresult.at = 92
        /\ mresult.synapse = msynapse

(***************************************************************************)
(* Properties of the evolution.                                            *)
(***************************************************************************)
\* the live cells among the neighbours of cell (i, j) on the periodic grid,
\* the cell itself left out
LiveNeighbours(grid, i, j, nb) ==
    Cardinality({d \in (-r..r) \X (-r..r) :
        /\ d # <<0, 0>>
        /\ nb = "Moore" \/ d[1] = 0 \/ d[2] = 0
        /\ grid[Wrap(i, d[1], Len(grid))][Wrap(j, d[2], Len(grid[1]))] = 1})

\* the birth counts of the rule table
BornAt(rule) ==
    CASE rule \in {"rulesets.ConwayRule", "protocol.ConwayRule"} -> {3}
      [] rule \in {"rulesets.HighLifeRule", "protocol.HighLifeRule"} -> {3, 6}
      [] rule \in {"rulesets.DayAndNightRule", "protocol.DayAndNightRule"}
            -> {3, 6, 7, 8}

\* the windows a Wolfram rule maps to 1
WolframOnes(rule) ==
    IF rule = "protocol.Rule30"
    THEN {<<0, 0, 1>>, <<0, 1, 0>>, <<0, 1, 1>>, <<1, 0, 0>>}
    ELSE {<<0, 0, 1>>, <<0, 1, 0>>, <<0, 1, 1>>, <<1, 0, 1>>, <<1, 1, 0>>}

\* the rule of the table applied once to every cell of a grid
TableGeneration(grid, rule, nb) ==
    IF rule \in {"protocol.Rule30", "protocol.Rule110"}
    THEN <<[j \in 1..Len(grid[1]) |->
              IF WindowAt1D(grid[1], j).rows[1] \in WolframOnes(rule)
              THEN 1 ELSE 0]>>
    ELSE [i \in 1..Len(grid) |-> [j \in 1..Len(grid[1]) |->
            LET k == LiveNeighbours(grid, i, j, nb)
            IN  IF grid[i][j] = 1
                THEN IF k \in {2, 3} THEN 1 ELSE 0
                ELSE IF k \in BornAt(rule) THEN 1 ELSE 0]]

\* the neighbourhood a run is to use
AskedNeighbourhood ==
    IF neighbourhood_arg \in EngineNeighbourhoods THEN neighbourhood_arg
    ELSE "Moore"

\* C12: an evolution asked for k steps returns k+1 grids, the first the
\* initial grid, each next one the rule applied once to every cell of the
\* grid before.
C12_HistoryLength ==
    evolved.path # "none" =>
        /\ evolved.exc = "none"
        /\ Len(evolved.frames) = timesteps + 1
        /\ evolved.frames[1] = ca.grid
        /\ \A i \in 1..(Len(evolved.frames) - 1) :
              evolved.frames[i + 1]
                 = TableGeneration(evolved.frames[i], evolved.rule,
                                   AskedNeighbourhood)

\* a run that returns gives as many grids as the steps asked for, the
\* initial grid being the first of them
HistoryHasStepsGrids ==
    (evolved.path # "none" /\ evolved.exc = "none") =>
        /\ Len(evolved.frames) = timesteps
        /\ evolved.frames[1] = ca.grid

\* with the rules of the registry and with the Wolfram rules every grid of
\* the history follows the table from the grid before
RegistryHistoryFollowsTable ==
    (evolved.path \in {"miner.evolve_automata", "Simulate1D.run"}
     /\ evolved.exc = "none") =>
        \A i \in 1..(Len(evolved.frames) - 1) :
            evolved.frames[i + 1]
               = TableGeneration(evolved.frames[i], evolved.rule,
                                 AskedNeighbourhood)

\* the live cells of a grid
LiveCells(grid) ==
    {p \in (1..Len(grid)) \X (1..Len(grid[1])) : grid[p[1]][p[2]] = 1}

\* the only live cells form a 2x2 block; exactly one cell is live
IsBlock(grid) ==
    \E i \in 1..(Len(grid) - 1), j \in 1..(Len(grid[1]) - 1) :
        LiveCells(grid) = {<<i, j>>, <<i, j + 1>>, <<i + 1, j>>, <<i + 1, j + 1>>}
IsSingleCell(grid) == Cardinality(LiveCells(grid)) = 1

\* the fixed points, for the runs of one set of Conway implementations
ConwayFixedPoints(rules) ==
    (/\ evolved.rule \in rules
     /\ evolved.exc = "none"
     /\ evolved.engine_neighbourhood = Some("Moore")) =>
        /\ (IsSingleCell(ca.grid) /\ Len(evolved.frames) >= 2)
              => LiveCells(evolved.frames[2]) = {}
        /\ IsBlock(ca.grid)
              => \A i \in 1..Len(evolved.frames) : evolved.frames[i] = ca.grid

\* C13: under the Conway rule with the Moore neighbourhood of radius 1 a
\* single live cell is dead after one step and a 2x2 block of live cells is
\* the same grid after every number of steps.
C13_ConwayFixedPoints ==
    ConwayFixedPoints({"rulesets.ConwayRule", "protocol.ConwayRule"})

\* the Conway rule of the registry has both fixed points
RegistryConwayFixedPoints == ConwayFixedPoints({"rulesets.ConwayRule"})

\* no run of the registry's Conway rule on a block takes two steps
\* (violated: the fixed points above are met by such runs)
RegistryBlockNeverRuns ==
    ~ (/\ evolved.rule = "rulesets.ConwayRule"
       /\ evolved.exc = "none"
       /\ IsBlock(ca.grid)
       /\ Len(evolved.frames) >= 3)

\* C14: whenever an evolution is run, the neighbourhood the engine is
\* called with is Moore or von Neumann, a string that is neither having
\* been replaced by Moore, and the run does not fail.
C14_NeighbourhoodFallback ==
    (evolved.path # "none" /\ evolved.engine_neighbourhood # None) =>
        /\ evolved.engine_neighbourhood[1] \in EngineNeighbourhoods
        /\ evolved.engine_neighbourhood[1] = AskedNeighbourhood
        /\ ca.ndim = 3 => evolved.exc = "none"

\* Simulate replaces a string that is neither by Moore
SimulateFallsBackToMoore ==
    evolved.path = "Simulate.run" =>
        evolved.engine_neighbourhood = Some(AskedNeighbourhood)

\* evolve_automata hands the string on as it came
EvolveAutomataHandsOn ==
    evolved.path = "miner.evolve_automata" =>
        evolved.engine_neighbourhood = Some(neighbourhood_arg)

(***************************************************************************)
(* Properties of the codec: what the encoders and decoders reject.         *)
(***************************************************************************)
\* C15: serialize_parameters and serialize_automaton, handed a grid with no
\* cells (or of an unsupported element type), raise the invalid-input error
\* and return no envelope.
C15_EncodeRejectsBadGrid ==
    (wireKind # "none"
     /\ (Product(initial_state.shape.items) = 0
         \/ initial_state.dtype \notin DTypeNames)) =>
        /\ wireKind = "error"
        /\ wire = <<>>

\* what the encoders do reject: steps that are not positive
SerializeRejectsBadSteps ==
    /\ wireKind = "error" => (steps <= 0 /\ wire = <<>>)
    /\ wireKind = "parameters" => steps > 0

\* the metadata as the decoder reads it, and whether its hash is the
\* payload's digest
DeclaredMetadata == wire[MetadataAt].doc
DigestMatches ==
    DictGet(DeclaredMetadata, "hash", EmptyString)
       = sha256_hexdigest(wire[PayloadAt])

\* C16: a decode of a pair whose digest matches but whose payload length is
\* not product(shape) x element width of the declared dtype raises and
\* returns no grid; a grid a decode returns has a buffer of
\* product(shape) x element width bytes.
C16_DecodeRejectsInconsistentShape ==
    (decoded.call \in {"function", "by name"} /\ decoded.status # "none") =>
        /\ (/\ DigestMatches
            /\ Len(wire[PayloadAt].bytes)
                 # Product(DeclaredMetadata.shape.items)
                   * Itemsize(DeclaredMetadata.dtype))
              => (decoded.status # "ok" /\ decoded.grid = NoGrid)
        /\ decoded.status = "ok"
              => Len(decoded.grid.buffer)
                   = Product(decoded.grid.shape.items)
                     * Itemsize(decoded.grid.dtype)

\* the same with the shapes left out that declare a dimension as -1
DecodeRejectsInconsistentShapeUnlessInferred ==
    (/\ decoded.call \in {"function", "by name"}
     /\ decoded.status # "none"
     /\ \A i \in 1..Len(DeclaredMetadata.shape.items) :
           DeclaredMetadata.shape.items[i] >= 0) =>
        /\ (/\ DigestMatches
            /\ Len(wire[PayloadAt].bytes)
                 # Product(DeclaredMetadata.shape.items)
                   * Itemsize(DeclaredMetadata.dtype))
              => (decoded.status # "ok" /\ decoded.grid = NoGrid)

\* a grid a decode returns holds product(shape) x element width bytes
DecodedGridIsConsistent ==
    decoded.status = "ok"
        => Len(decoded.grid.buffer)
              = Product(decoded.grid.shape.items) * Itemsize(decoded.grid.dtype)

(***************************************************************************)
(* Properties of the executor: the steps of a request.                     *)
(***************************************************************************)
\* line of the decode call and of the evolve_automata call in miner.forward
DecodeAt == 92
EvolveAt == 111

\* serialize_parameters raises for steps that are not positive, whatever the
\* other arguments, and returns nothing
SerializeRaisesOnBadSteps ==
    \A g \in Grids, st \in -1..0, rf \in RequestRuleNames,
       nf \in RequestNeighborhoodNames :
        serialize_parameters(g, st, rf, nf) = [err |-> "ValueError", ret |-> <<>>]

DecodeKeepsBadSteps ==
    LET got == deserialize_parameters(msynapse.metadata_bytes[1],
                                      msynapse.array_bytes[1], "function")
    IN  msynapse.metadata_bytes # None =>
            (got.status = "ok" /\ got.steps = sent.steps)

(***************************************************************************)
(* Properties of the requester's round: responders that do not answer.     *)
(***************************************************************************)
\* the queried positions of this round that gave no response: the deadline
\* passed, or the transport failed while the request was out
Unresponsive ==
    {i \in 1..Len(inflight) : inflight[i].kind \in {"timeout", "pending"}}

\* the queried positions an update_scores call of this round gave a score
Scored ==
    {i \in 1..Len(miner_uids) :
        \E k \in 1..Len(scoreLog) : i <= Len(scoreLog[k][2])}

\* forward has returned
RoundEnded == vpc = "idle" /\ returned # "none"

\* C18: a round in which the transport failed or a responder did not answer
\* within the deadline ends with forward returning (None or the responses),
\* no exception leaving it, and with no score recorded for a responder that
\* did not answer.
C18_TimeoutIsNotACrash ==
    (RoundEnded /\ Unresponsive # {}) =>
        /\ returned \in {"None", "responses"}
        /\ Scored \cap Unresponsive = {}
        /\ saves <= 1

\* C18 witness: a round with a responder that timed out and one that
\* answered has ended, forward returned None and recorded nothing.
C18_Witness ==
    /\ RoundEnded
    /\ \E i \in 1..Len(inflight) : inflight[i].kind = "timeout"
    /\ \E i \in 1..Len(inflight) : inflight[i].kind = "foreign"
    /\ responses = inflight
    /\ returned = "None"
    /\ scoreLog = <<>>

\* no round whose query failed in the transport ends (violated: it ends,
\* forward returning None)
NoRoundEndsAfterTransportFailure ==
    ~ (/\ RoundEnded
       /\ \E i \in 1..Len(inflight) : inflight[i].kind = "pending"
       /\ responses = <<>>
       /\ returned = "None")

(***************************************************************************)
(* Properties: errors and defaults.                                        *)
(***************************************************************************)
\* C19: deserialize_parameters, handed a metadata block with a matching hash
\* that lacks steps, rule_func or neighborhood_func, raises; it does not
\* return None or another default for the missing field.
C19_NoSilentDefault ==
    (/\ decoded.call = "function"
     /\ decoded.status # "none"
     /\ DigestMatches
     /\ ~(ParameterFields \subseteq DOMAIN DeclaredMetadata)) =>
        decoded.status # "ok"

\* a Simulate run whose engine call fails raises RuntimeError to its caller
SimulateFailurePropagates ==
    (/\ evolved.path = "Simulate.run"
     /\ cpl_evolve2d(ca, timesteps, evolved.rule,
                     Simulate_neighbourhood_type(neighbourhood_arg),
                     cellArg).exc # "none") =>
        (evolved.exc = "RuntimeError" /\ evolved.frames = <<>>)

\* no Simulate run fails (violated: a 2-D array makes the engine call fail)
NoSimulateRunFails == evolved.path = "Simulate.run" => evolved.exc = "none"

(***************************************************************************)
(* Properties of the requester's round: the order of its states.           *)
(* Idle is vpc "idle" or "synced", ParamsChosen "params", Sent and         *)
(* AwaitingResponse "awaiting", the per-responder outcome "responded",     *)
(* Scored "rewarded".                                                      *)
(***************************************************************************)
Enters(state) == vpc' = state /\ vpc # state

SendsNothing == vpc = "params" /\ request = None /\ request' = None

ScoresOnceAfterResponses ==
    (scoreLog' # scoreLog \/ saves' # saves) =>
        \/ vpc = "rewarded" /\ Len(scoreLog') <= 1 /\ saves' <= 1
        \/ vpc = "idle" /\ scoreLog' = <<>> /\ saves' = 0

\* C20: every round goes from Idle to ParamsChosen, from there to Sent and
\* AwaitingResponse, and only from there to the responders' outcomes and to
\* scoring; update_scores and save_state are called at most once per round
\* and only after the responses were obtained.
C20_SessionStateMachine ==
    [][/\ Enters("params") => vpc = "synced"
       /\ Enters("awaiting") => vpc = "params"
       /\ Enters("responded") => vpc = "awaiting"
       /\ Enters("rewarded") => vpc = "responded"
       /\ ScoresOnceAfterResponses]_vars

\* the same order with the rounds that send nothing left aside
OrderWhenSent ==
    [][/\ Enters("params") => vpc = "synced"
       /\ Enters("awaiting") => vpc = "params"
       /\ Enters("responded") => (vpc = "awaiting" \/ SendsNothing)
       /\ Enters("rewarded") => vpc = "responded"
       /\ ScoresOnceAfterResponses]_vars

\* a round reaches the scoring without anything having been sent
NoRoundSkipsSending == ~(vpc = "rewarded" /\ request = None)

\* a round that was started is brought to its end
FairSession == SpecSession /\ WF_vars(NextSession)
RoundReturnsToIdle == (vpc # "idle") ~> (vpc = "idle")

(***************************************************************************)
(* Properties of the executor: what it evolves and what it answers.        *)
(***************************************************************************)
\* the request is one serialize_parameters writes: steps present and positive
WellFormedRequest == sent.steps # None /\ sent.steps[1] > 0

\* C21: after miner.forward handled a well-formed request, the key of its
\* registry lookup is the rule_func the requester encoded, and for a rule of
\* the registry the evolution was handed the encoded grid, the encoded steps
\* and the encoded neighborhood_func.
C21_EvolvesWhatWasEncoded ==
    (mresult # NotHandled /\ WellFormedRequest) =>
        /\ mresult.rule_class_name.reached
        /\ mresult.rule_class_name.value = Some(sent.rule_func)
        /\ sent.rule_func \in DOMAIN rule_class_mapping =>
              /\ mresult.engine.reached
              /\ mresult.engine.value =
                    [initial_state |-> sent.grid, steps |-> sent.steps,
                     neighbourhood_func |-> Some(sent.neighborhood_func)]

\* what the decoder returns for the envelope of the request
DecodedRequest ==
    deserialize_parameters(msynapse.metadata_bytes[1], msynapse.array_bytes[1],
                           "miner")

\* lines 94-130 on the decoded request: the registry is asked for the
\* neighbourhood string, which is none of its keys, whatever the rule
UnpackSwapsRuleAndNeighbourhood ==
    LET out == forward_after_decode(DecodedRequest, msynapse)
    IN  /\ DecodedRequest.status = "ok"
        /\ DecodedRequest.rule_func = Some(sent.rule_func)
        /\ out.rule_class_name = Reached(Some(sent.neighborhood_func))
        /\ out.exc = "ValueError"
        /\ out.at = 107

\* no request reaches the evolution
NoRequestEvolved == ~mresult.engine.reached

\* C22: the payload miner.forward sets on the response holds the last grid
\* of the history evolve_automata returned, cell for cell, and so as many
\* cells as the initial grid.
C22_PayloadIsLastGrid ==
    evolved.automaton_bytes # None =>
        /\ evolved.automaton_bytes[1]
              = Flatten(evolved.frames[Len(evolved.frames)])
        /\ Len(evolved.automaton_bytes[1]) = Len(ca.grid) * Len(ca.grid[1])

\* the payload is the whole history: every grid of it, the initial one first
PayloadIsWholeHistory ==
    evolved.automaton_bytes # None =>
        /\ Len(evolved.automaton_bytes[1])
              = timesteps * Len(ca.grid) * Len(ca.grid[1])
        /\ SubSeq(evolved.automaton_bytes[1], 1, Len(ca.grid) * Len(ca.grid[1]))
              = Flatten(ca.grid)

\* a request handled by miner.forward comes back without payload
NoPayloadSet == mresult # NotHandled => mresult.synapse.automaton_bytes = None

(***************************************************************************)
(* Properties of concurrent executor runs.                                 *)
(***************************************************************************)
\* the answers of the round that miner.forward gave
AnsweredByMiner == {i \in 1..Len(inflight) : inflight[i].kind = "miner"}

MinerNeverAnswersAfterForeignReply ==
    ~(/\ AnsweredByMiner # {}
      /\ \E j \in 1..Len(inflight) : inflight[j].kind = "foreign")

\* an answer given is not touched by the arrivals after it
AnswersAreKept ==
    [][\A i \in 1..Len(inflight) :
          (vpc' = "awaiting" /\ inflight[i].kind # "pending")
              => inflight'[i] = inflight[i]]_vars

(***************************************************************************)
(* Properties of the vocabularies the requester and the executor share.    *)
(***************************************************************************)
\* C24: the rule identifier the round's parameter sampler chose is a key of
\* the executor's registry rule_class_mapping.
C24_SampledRuleIsRegistered ==
    params # NoParams => params.rule_instance \in DOMAIN rule_class_mapping

\* no identifier forward.get_random_params can choose is a key of the
\* registry
NoSampledRuleIsRegistered ==
    params # NoParams => params.rule_instance \notin DOMAIN rule_class_mapping

\* the identifiers Validator.get_random_params chooses are keys of the
\* registry, and a request naming one of them still ends before the lookup
ValidatorRulesAreRegistered ==
    sent.rule_func \in Validator_rule_funcs =>
        /\ sent.rule_func \in DOMAIN rule_class_mapping
        /\ mresult # NotHandled => mresult.exc = "TypeError"

\* the neighbourhood the engine knows under the sampled name
Spelled(name) == IF name = "Von Neumann" THEN "von Neumann" ELSE name

\* C25: an evolution run with a neighbourhood string the requester samples
\* is given a string the engine recognises, runs without failure, and runs
\* with the neighbourhood that was sampled (von Neumann stays von Neumann).
C25_SampledNeighbourhoodIsEvolved ==
    (/\ evolved.path \in {"miner.evolve_automata", "Simulate.run"}
     /\ neighbourhood_arg \in Validator_neighborhood_funcs
     /\ ca.ndim = 3) =>
        /\ neighbourhood_arg \in EngineNeighbourhoods
        /\ evolved.exc = "none"
        /\ evolved.engine_neighbourhood = Some(Spelled(neighbourhood_arg))

\* the sampled 'Von Neumann' is evolved as Moore by Simulate
SampledVonNeumannRunsAsMoore ==
    (evolved.path = "Simulate.run" /\ neighbourhood_arg = "Von Neumann") =>
        evolved.engine_neighbourhood = Some("Moore")

\* the sampled 'Von Neumann' reaches cpl.evolve2d unchanged through
\* evolve_automata, which fails on it as soon as a window is taken
SampledVonNeumannFailsInEngine ==
    (/\ evolved.path = "miner.evolve_automata"
     /\ neighbourhood_arg = "Von Neumann"
     /\ ca.ndim = 3
     /\ timesteps >= 2) =>
        evolved.exc = "Exception"

\* the sampled 'Moore' is evolved as Moore on both paths
SampledMooreIsEvolved ==
    (/\ evolved.path \in {"miner.evolve_automata", "Simulate.run"}
     /\ neighbourhood_arg = "Moore"
     /\ ca.ndim = 3) =>
        (evolved.exc = "none" /\ evolved.engine_neighbourhood = Some("Moore"))

(***************************************************************************)
(* Properties of the score bookkeeping.                                    *)
(***************************************************************************)
\* the uids and the scores of the k-th call of update_scores in the round
UidsOf(k) == scoreLog[k][1]
ScoresOf(k) == scoreLog[k][2]

\* C26: every call of update_scores in a round has one score for each uid
\* that was queried and one for each response, and in a round without
\* responses update_scores and save_state are not called.
C26_ScoresAligned ==
    /\ \A k \in 1..Len(scoreLog) :
          /\ Len(UidsOf(k)) = Len(ScoresOf(k))
          /\ Len(ScoresOf(k)) = Len(responses)
    /\ responses = <<>> => (scoreLog = <<>> /\ saves = 0)

\* Validator.forward records scores and saves for no uid and no response,
\* and in no other case
ValidatorRecordsOnlyEmptyRounds ==
    (scoreLog # <<>> \/ saves > 0) =>
        /\ vpc = "awaiting forward"
        /\ responses = <<>>
        /\ scoreLog = <<<<<<>>, <<>>>>>>
        /\ saves = 1

\* a round in which the query failed after the uids were sampled has ended
NoRoundEndsWithUidsAndNoResponses ==
    ~(vpc = "idle" /\ returned = "None" /\ miner_uids # <<>> /\ responses = <<>>)

====
